---- MODULE Spec2Model ----
(***************************************************************************)
(* Two programs of the repository:                                         *)
(*                                                                         *)
(*  1. tools/variations: _FieldTrialConfigToDescription(config, platforms) *)
(*     turns a field-trial configuration into the description of studies  *)
(*     for one platform.  The repository's files hold its unit test, which *)
(*     pins the behaviour modelled here, and not fieldtrial_to_struct.py.  *)
(*     Where the test is silent (unknown tags, empty collections, the      *)
(*     FALSE flag, params declared empty, orders other than the order of   *)
(*     the names) the model follows the specification.                     *)
(*                                                                         *)
(*  2. content/shell/tools/breakpad_integration_test.py: main(), run_test  *)
(*     and get_android_dump, as a process whose position is pc.            *)
(***************************************************************************)
EXTENDS Integers, Sequences, FiniteSets, TLC

VARIABLES
    \* _FieldTrialConfigToDescription(config, platforms)
    config,             \* the configuration: a sequence of [name, configs]
    platforms,          \* the queried platforms: a list of one tag, as in the test
    result,             \* NotCalled, or what the function returned
    \* breakpad_integration_test.py
    pc,                 \* where main() is
    options,            \* the parsed command line
    platform,           \* 'android' or sys.platform
    failure,            \* the global failure message
    bins,               \* binaries whose symbols are still to be generated
    crash_dir,          \* the temporary directory: none, exists, deleted
    android_crash_dir,  \* ANDROID_CRASH_DIR on the device: absent, present, deleted
    attempts,           \* listings get_android_dump has made
    dumps,              \* the .dmp files of its last listing (their number)
    pulled,             \* adb pull has brought a dump
    pending_cleared,    \* adb shell rm has emptied the pending directory
    found_symbol,       \* CrashIntentionally is in the stack
    json_file,          \* what was written to options.json
    pending,            \* how main() ends once its finally clause is through
    outcome,            \* how main() ended
    raised,             \* history: the steps that raised
    cleanup             \* history: the deletions attempted, and whether they failed

tvars == <<config, platforms, result>>

mvars == <<pc, options, platform, failure, bins, crash_dir, android_crash_dir,
           attempts, dumps, pulled, pending_cleared, found_symbol, json_file,
           pending, outcome, raised, cleanup>>

vars == <<tvars, mvars>>

(***************************************************************************)
(* Bounds of the enumerated configurations.                                *)
(***************************************************************************)
MaxTrials == 2

MaxConfigs == 2

MaxExperiments == 2

\* The most .dmp files a listing or a glob finds.
MaxDumps == 2

NotCalled == [status |-> "not_called"]

SchemaViolationError == [status |-> "schema_violation"]

(***************************************************************************)
(* Helpers on sequences.                                                   *)
(***************************************************************************)
Range(s) == {s[i] : i \in DOMAIN s}

RECURSIVE Flatten(_)
Flatten(ss) == IF ss = <<>> THEN <<>> ELSE Head(ss) \o Flatten(Tail(ss))

SeqsUpTo(S, n) == UNION {[1..k -> S] : k \in 0..n}

(***************************************************************************)
(* The closed enumerations.  The test pins windows, ios and mac, and       *)
(* desktop, phone and tablet.                                              *)
(***************************************************************************)
KnownPlatforms == {"windows", "ios", "mac"}

KnownFormFactors == {"desktop", "phone", "tablet"}

PlatformEnumValue(p) ==
    CASE p = "windows" -> "Study::PLATFORM_WINDOWS"
      [] p = "ios" -> "Study::PLATFORM_IOS"
      [] p = "mac" -> "Study::PLATFORM_MAC"

\* As the table would be with the symbol of phone in the row of tablet.
FormFactorEnumValueSlip(f) ==
    CASE f = "desktop" -> "Study::DESKTOP"
      [] f = "phone" -> "Study::PHONE"
      [] f = "tablet" -> "Study::PHONE"

FormFactorEnumValue(f) ==
    CASE f = "desktop" -> "Study::DESKTOP"
      [] f = "phone" -> "Study::PHONE"
      [] f = "tablet" -> "Study::TABLET"

\* The flag of a PlatformConfig: absent, True or False.
LowEndDeviceEnumValue(pconf) ==
    IF "is_low_end_device" \notin DOMAIN pconf THEN "Study::OPTIONAL_BOOL_MISSING"
    ELSE IF pconf.is_low_end_device THEN "Study::OPTIONAL_BOOL_TRUE"
    ELSE "Study::OPTIONAL_BOOL_FALSE"

FormFactors(pconf) ==
    IF "form_factors" \notin DOMAIN pconf THEN <<>>
    ELSE [i \in DOMAIN pconf.form_factors |-> FormFactorEnumValue(pconf.form_factors[i])]

\* As the list would be with each value under key and each key under value.
ParamsListSwapped(params) ==
    [i \in DOMAIN params |-> [key |-> params[i][2], value |-> params[i][1]]]

\* params: an ordered mapping, held as a sequence of <<key, value>>.
ParamsList(params) ==
    [i \in DOMAIN params |-> [key |-> params[i][1], value |-> params[i][2]]]

\* The fields of the output experiment: four always, the others when the
\* input has them (params: when it has any).
ExperimentFields(e) ==
    {"name", "platforms", "is_low_end_device", "form_factors"}
    \cup (IF "params" \in DOMAIN e /\ e.params # <<>> THEN {"params"} ELSE {})
    \cup ({"enable_features", "disable_features", "forcing_flag"} \cap DOMAIN e)

\* As the experiment would be with the declared platforms for the queried one.
CreateExperimentOfDeclared(e, p, pconf) ==
    [f \in ExperimentFields(e) |->
        CASE f = "name" -> e.name
          [] f = "platforms" ->
                [i \in DOMAIN pconf.platforms |-> PlatformEnumValue(pconf.platforms[i])]
          [] f = "is_low_end_device" -> LowEndDeviceEnumValue(pconf)
          [] f = "form_factors" -> FormFactors(pconf)
          [] f = "params" -> ParamsList(e.params)
          [] OTHER -> e[f]]

CreateExperiment(e, p, pconf) ==
    [f \in ExperimentFields(e) |->
        CASE f = "name" -> e.name
          [] f = "platforms" -> <<PlatformEnumValue(p)>>
          [] f = "is_low_end_device" -> LowEndDeviceEnumValue(pconf)
          [] f = "form_factors" -> FormFactors(pconf)
          [] f = "params" -> ParamsList(e.params)
          [] OTHER -> e[f]]

\* Whether a PlatformConfig applies to the queried platform.
Applies(pconf, p) == p \in Range(pconf.platforms)

\* The experiments of one PlatformConfig, or none when it does not apply.
ConfigExperiments(pconf, p) ==
    IF Applies(pconf, p)
    THEN [i \in DOMAIN pconf.experiments |-> CreateExperiment(pconf.experiments[i], p, pconf)]
    ELSE <<>>

\* As the study would be with the first PlatformConfig that applies alone.
CreateTrialOfFirst(name, configs, p) ==
    LET applying == {c \in DOMAIN configs : Applies(configs[c], p)}
    IN  [name |-> name,
         experiments |->
            IF applying = {} THEN <<>>
            ELSE ConfigExperiments(
                     configs[CHOOSE c \in applying : \A d \in applying : c <= d], p)]

\* As the study would be with the flag and the form factors of the first
\* PlatformConfig that applies given to the experiments of them all.
CreateTrialInheritingFirst(name, configs, p) ==
    LET applying == {c \in DOMAIN configs : Applies(configs[c], p)}
        first == configs[CHOOSE c \in applying : \A d \in applying : c <= d]
    IN  [name |-> name,
         experiments |->
            Flatten([c \in DOMAIN configs |->
                IF Applies(configs[c], p)
                THEN [i \in DOMAIN configs[c].experiments |->
                         CreateExperiment(configs[c].experiments[i], p, first)]
                ELSE <<>>])]

\* The study of a trial: the experiments of every PlatformConfig that
\* applies, in declaration order (the test expects Group1, Group2 and IOSOnly
\* for ios).
CreateTrial(name, configs, p) ==
    [name |-> name,
     experiments |->
        Flatten([c \in DOMAIN configs |-> ConfigExperiments(configs[c], p)])]

\* As the studies would be with those without experiments kept.
GenerateTrialsKeepingEmpty(cfg, p) ==
    [t \in DOMAIN cfg |-> CreateTrial(cfg[t].name, cfg[t].configs, p)]

\* As the studies would be with the trials taken last to first.
GenerateTrialsBackwards(cfg, p) ==
    Flatten([t \in DOMAIN cfg |->
        LET u == Len(cfg) + 1 - t
            study == CreateTrial(cfg[u].name, cfg[u].configs, p)
        IN  IF study.experiments # <<>> THEN <<study>> ELSE <<>>])

\* The studies with experiments, in the order of the trials.
GenerateTrials(cfg, p) ==
    Flatten([t \in DOMAIN cfg |->
        LET study == CreateTrial(cfg[t].name, cfg[t].configs, p)
        IN  IF study.experiments # <<>> THEN <<study>> ELSE <<>>])

(***************************************************************************)
(* Schema violations (from the specification: the test has none).          *)
(***************************************************************************)
\* As the check would be with the platform tags looked at only in the
\* PlatformConfigs that apply.
UnknownTagWhereApplied(cfg, p) ==
    \/ p \notin KnownPlatforms
    \/ \E t \in DOMAIN cfg : \E c \in DOMAIN cfg[t].configs :
          LET pconf == cfg[t].configs[c]
          IN  \/ /\ Applies(pconf, p)
                 /\ \E i \in DOMAIN pconf.platforms :
                        pconf.platforms[i] \notin KnownPlatforms
              \/ /\ "form_factors" \in DOMAIN pconf
                 /\ \E i \in DOMAIN pconf.form_factors :
                        pconf.form_factors[i] \notin KnownFormFactors

UnknownTag(cfg, p) ==
    \/ p \notin KnownPlatforms
    \/ \E t \in DOMAIN cfg : \E c \in DOMAIN cfg[t].configs :
          LET pconf == cfg[t].configs[c]
          IN  \/ \E i \in DOMAIN pconf.platforms : pconf.platforms[i] \notin KnownPlatforms
              \/ /\ "form_factors" \in DOMAIN pconf
                 /\ \E i \in DOMAIN pconf.form_factors :
                        pconf.form_factors[i] \notin KnownFormFactors

\* As the check would be with the experiments never counted.
EmptyTrial(cfg) == \E t \in DOMAIN cfg : cfg[t].configs = <<>>

EmptyCollection(cfg) ==
    \E t \in DOMAIN cfg :
        \/ cfg[t].configs = <<>>
        \/ \E c \in DOMAIN cfg[t].configs : cfg[t].configs[c].experiments = <<>>

FieldTrialConfigToDescription(cfg, p) ==
    IF UnknownTag(cfg, p) \/ EmptyCollection(cfg)
    THEN SchemaViolationError
    ELSE [status |-> "ok",
          elements |-> [kFieldTrialConfig |-> [studies |-> GenerateTrials(cfg, p)]]]

(***************************************************************************)
(* The enumerated inputs.                                                  *)
(***************************************************************************)
\* The names of the trials by place of declaration: not in the order of the names.
TrialNames == <<"Trial2", "Trial1", "Trial4", "Trial3">>

\* GroupNames[c][e]: the name of experiment e of PlatformConfig c of a trial.
GroupNames ==
    << <<"A1", "A2", "A3", "A4">>, <<"B1", "B2", "B3", "B4">>,
       <<"C1", "C2", "C3", "C4">>, <<"D1", "D2", "D3", "D4">> >>

QueryPlatforms == {"windows", "ios", "mac", "atari"}

PlatformLists ==
    {<<"windows">>, <<"ios">>, <<"windows", "ios">>, <<"windows", "mac">>,
     <<"ios", "atari">>}

FormFactorLists ==
    {<<>>, <<"desktop">>, <<"desktop", "phone">>, <<"phone", "desktop">>,
     <<"tablet">>, <<"desktop", "watch">>}

PlainExperiments(c, n) == [e \in 1..n |-> [name |-> GroupNames[c][e]]]

\* The PlatformConfigs tried at position c of a trial.
PlatformConfigs(c) ==
    {[platforms |-> pl, experiments |-> PlainExperiments(c, n)] :
        pl \in PlatformLists, n \in 1..MaxExperiments}
    \cup {[platforms |-> <<"windows", "ios">>, is_low_end_device |-> b,
           experiments |-> PlainExperiments(c, MaxExperiments)] : b \in BOOLEAN}
    \cup {[platforms |-> <<"windows">>, form_factors |-> ff,
           experiments |-> PlainExperiments(c, 1)] : ff \in FormFactorLists}
    \cup {[platforms |-> <<"windows">>, experiments |-> <<>>]}

ConfigLists ==
    {cs \in SeqsUpTo(UNION {PlatformConfigs(c) : c \in 1..MaxConfigs}, MaxConfigs) :
        \A c \in DOMAIN cs : cs[c] \in PlatformConfigs(c)}

\* One trial with any list of PlatformConfigs.
SingleTrialConfigs == {<<[name |-> TrialNames[1], configs |-> cs]>> : cs \in ConfigLists}

SimpleConfigLists ==
    {<<>>,
     <<[platforms |-> <<"windows">>, experiments |-> PlainExperiments(1, 1)]>>,
     <<[platforms |-> <<"ios">>, is_low_end_device |-> TRUE,
        experiments |-> PlainExperiments(1, 2)]>>,
     <<[platforms |-> <<"windows", "ios">>, experiments |-> PlainExperiments(1, 1)],
       [platforms |-> <<"ios">>, experiments |-> PlainExperiments(2, 1)]>>,
     <<[platforms |-> <<"windows">>, experiments |-> PlainExperiments(1, 1)],
       [platforms |-> <<"atari">>, experiments |-> PlainExperiments(2, 1)]>>}

\* Several trials, each with one of a few lists of PlatformConfigs.
MultiTrialConfigs ==
    {[t \in DOMAIN cl |-> [name |-> TrialNames[t], configs |-> cl[t]]] :
        cl \in SeqsUpTo(SimpleConfigLists, MaxTrials)}

ParamsChoices ==
    {<<>>, << <<"x", "1">> >>, << <<"x", "1">>, <<"y", "2">> >>,
     << <<"y", "2">>, <<"x", "1">> >>}

\* An optional field is drawn as a sequence: empty when the field is absent.
Optional(S) == {<<>>} \cup {<<x>> : x \in S}

MakeExperiment(name, pa, en, di, fo) ==
    [f \in {"name"} \cup (IF pa # <<>> THEN {"params"} ELSE {})
                    \cup (IF en # <<>> THEN {"enable_features"} ELSE {})
                    \cup (IF di # <<>> THEN {"disable_features"} ELSE {})
                    \cup (IF fo # <<>> THEN {"forcing_flag"} ELSE {}) |->
        CASE f = "name" -> name
          [] f = "params" -> pa[1]
          [] f = "enable_features" -> en[1]
          [] f = "disable_features" -> di[1]
          [] f = "forcing_flag" -> fo[1]]

\* Experiments with every choice of optional fields.
RichExperiments ==
    {MakeExperiment("Group1", pa, en, di, fo) :
        pa \in Optional(ParamsChoices), en \in Optional({<<>>, <<"A", "B">>}),
        di \in Optional({<<"C">>}), fo \in Optional({"my-forcing-flag"})}

\* One trial with one PlatformConfig with one experiment.
RichExperimentConfigs ==
    {<<[name |-> TrialNames[1],
        configs |-> <<[platforms |-> <<"windows">>, is_low_end_device |-> FALSE,
                       experiments |-> <<e>>]>>]>> : e \in RichExperiments}

Configs == SingleTrialConfigs \cup MultiTrialConfigs \cup RichExperimentConfigs

(***************************************************************************)
(* breakpad_integration_test.py.  Every call of the operating system (a    *)
(* subprocess, a file, a directory) either succeeds or raises; which, is   *)
(* the environment's choice.                                               *)
(***************************************************************************)
\* range(5) in get_android_dump.
MaxAttempts == 5

Running == [kind |-> "running"]

Return(v) == [kind |-> "return", value |-> v]

Raises == [kind |-> "raise"]

Message(text) == [format |-> text]

\* 'Expected 1 crash dump, found %d.' % n
ExpectedOneDump(n) == [format |-> "Expected 1 crash dump, found %d.", arg |-> n]

Unwritten == [written |-> FALSE]

Written(list) == [written |-> TRUE, data |-> list]

\* Neither main() nor anything of it runs.
MainIdle ==
    /\ pc = "idle"
    /\ options = [build_dir |-> FALSE, binary |-> FALSE, additional_binary |-> FALSE,
                  no_symbols |-> FALSE, json |-> FALSE]
    /\ platform = "unset"
    /\ failure = Message("unset")
    /\ bins = 0
    /\ crash_dir = "none"
    /\ android_crash_dir = "absent"
    /\ attempts = 0
    /\ dumps = 0
    /\ pulled = FALSE
    /\ pending_cleared = FALSE
    /\ found_symbol = FALSE
    /\ json_file = Unwritten
    /\ pending = Running
    /\ outcome = Running
    /\ raised = {}
    /\ cleanup = {}

\* main() returns v before its try statement.
ReturnEarly(v) ==
    /\ pc' = "done"
    /\ outcome' = Return(v)
    /\ UNCHANGED <<pending, raised>>

\* A step outside the try statement raises: main() raises.
RaiseUncaught(step) ==
    /\ pc' = "done"
    /\ outcome' = Raises
    /\ raised' = raised \cup {step}
    /\ UNCHANGED pending

\* A step inside the try statement raises: the except clause is next.
RaiseCaught(step) ==
    /\ pc' = "except"
    /\ raised' = raised \cup {step}
    /\ UNCHANGED <<pending, outcome>>

Goto(label) ==
    /\ pc' = label
    /\ UNCHANGED <<pending, outcome, raised>>

\* main(), lines 188-202: the required options, and the binary is there.
ParseArgs ==
    /\ pc = "main"
    /\ \E executable \in BOOLEAN :
          IF ~options.build_dir \/ ~options.binary \/ ~executable
          THEN ReturnEarly(1) /\ UNCHANGED failure
          ELSE Goto("detect_platform") /\ failure' = Message("")
    /\ UNCHANGED tvars
    /\ UNCHANGED <<options, platform, bins, crash_dir, android_crash_dir, attempts,
                   dumps, pulled, pending_cleared, found_symbol, json_file, cleanup>>

\* main(), lines 204-213: build_is_android, android_crash_dir_exists, mkdir.
DetectPlatform ==
    /\ pc = "detect_platform"
    /\ \/ /\ platform' = "android"
          /\ \/ /\ android_crash_dir' = "present"
                /\ ReturnEarly(1)
             \/ /\ android_crash_dir' = "present"
                /\ Goto("mkdtemp")
             \/ /\ android_crash_dir' = "absent"
                /\ RaiseUncaught("mkdir")
       \/ /\ platform' \in {"linux2", "darwin", "win32"}
          /\ android_crash_dir' = "absent"
          /\ Goto("mkdtemp")
    /\ UNCHANGED tvars
    /\ UNCHANGED <<options, failure, bins, crash_dir, attempts, dumps, pulled,
                   pending_cleared, found_symbol, json_file, cleanup>>

\* main(), lines 216-226: tempfile.mkdtemp(), and the binaries to process.
MkDtemp ==
    /\ pc = "mkdtemp"
    /\ \/ /\ crash_dir' = "exists"
          /\ bins' = IF platform # "win32"
                     THEN (IF options.additional_binary THEN 2 ELSE 1)
                     ELSE 0
          /\ Goto("generate_symbols")
       \/ /\ RaiseUncaught("mkdtemp")
          /\ UNCHANGED <<crash_dir, bins>>
    /\ UNCHANGED tvars
    /\ UNCHANGED <<options, platform, failure, android_crash_dir, attempts, dumps,
                   pulled, pending_cleared, found_symbol, json_file, cleanup>>

\* main(), lines 229-241: one turn of the loop over bins, or the call of
\* run_test when none is left.
GenerateSymbols ==
    /\ pc = "generate_symbols"
    /\ IF bins > 0
       THEN /\ failure' = Message("Failed to run generate_breakpad_symbols.py.")
            /\ \/ bins' = bins - 1 /\ Goto("generate_symbols")
               \/ UNCHANGED bins /\ RaiseCaught("generate_symbols")
       ELSE /\ Goto("run_content_shell")
            /\ UNCHANGED <<failure, bins>>
    /\ UNCHANGED tvars
    /\ UNCHANGED <<options, platform, crash_dir, android_crash_dir, attempts, dumps,
                   pulled, pending_cleared, found_symbol, json_file, cleanup>>

\* run_test(), lines 71-95: content_shell is run and made to crash.
RunContentShell ==
    /\ pc = "run_content_shell"
    /\ failure' = Message("Failed to run content_shell.")
    /\ \/ Goto("retrieve_dump")
       \/ RaiseCaught("content_shell")
    /\ UNCHANGED tvars
    /\ UNCHANGED <<options, platform, bins, crash_dir, android_crash_dir, attempts,
                   dumps, pulled, pending_cleared, found_symbol, json_file, cleanup>>

\* run_test(), lines 97-113: get_android_dump is called, or the dumps are
\* globbed and there must be one.
RetrieveDump ==
    /\ pc = "retrieve_dump"
    /\ IF platform = "android"
       THEN /\ Goto("list_pending")
            /\ attempts' = 0
            /\ UNCHANGED <<failure, dumps>>
       ELSE /\ attempts' = attempts
            /\ \E n \in 0..MaxDumps :
                  /\ dumps' = n
                  /\ failure' = ExpectedOneDump(n)
                  /\ IF n # 1
                     THEN RaiseCaught("glob")
                     ELSE Goto(IF platform \notin {"darwin", "win32", "android"}
                               THEN "dmp_to_minidump" ELSE "symbolize")
    /\ UNCHANGED tvars
    /\ UNCHANGED <<options, platform, bins, crash_dir, android_crash_dir, pulled,
                   pending_cleared, found_symbol, json_file, cleanup>>

\* get_android_dump(), lines 45-55: one turn of the loop: the pending
\* directory is listed; with a dump the loop is left, without one the turn
\* sleeps and the loop goes on until its fifth turn.
ListPending ==
    /\ pc = "list_pending"
    /\ attempts < MaxAttempts
    /\ \/ \E n \in 0..MaxDumps :
             /\ attempts' = attempts + 1
             /\ dumps' = n
             /\ Goto(IF n > 0 \/ attempts + 1 = MaxAttempts
                     THEN "check_dumps" ELSE "list_pending")
       \/ /\ RaiseCaught("adb_ls")
          /\ UNCHANGED <<attempts, dumps>>
    /\ UNCHANGED tvars
    /\ UNCHANGED <<options, platform, failure, bins, crash_dir, android_crash_dir,
                   pulled, pending_cleared, found_symbol, json_file, cleanup>>

\* As the test of the dumps would be with none for not one: several dumps
\* go on to adb pull.
CheckDumpsWhenNone ==
    /\ pc = "check_dumps"
    /\ IF dumps = 0
       THEN failure' = ExpectedOneDump(dumps) /\ RaiseCaught("dump_count")
       ELSE UNCHANGED failure /\ Goto("adb_pull")
    /\ UNCHANGED tvars
    /\ UNCHANGED <<options, platform, bins, crash_dir, android_crash_dir, attempts,
                   dumps, pulled, pending_cleared, found_symbol, json_file, cleanup>>

\* get_android_dump(), lines 57-60: anything but one dump raises.
CheckDumps ==
    /\ pc = "check_dumps"
    /\ IF dumps # 1
       THEN failure' = ExpectedOneDump(dumps) /\ RaiseCaught("dump_count")
       ELSE UNCHANGED failure /\ Goto("adb_pull")
    /\ UNCHANGED tvars
    /\ UNCHANGED <<options, platform, bins, crash_dir, android_crash_dir, attempts,
                   dumps, pulled, pending_cleared, found_symbol, json_file, cleanup>>

\* get_android_dump(), line 62: adb pull.
AdbPull ==
    /\ pc = "adb_pull"
    /\ \/ pulled' = TRUE /\ Goto("adb_rm_pending")
       \/ UNCHANGED pulled /\ RaiseCaught("adb_pull")
    /\ UNCHANGED tvars
    /\ UNCHANGED <<options, platform, failure, bins, crash_dir, android_crash_dir,
                   attempts, dumps, pending_cleared, found_symbol, json_file, cleanup>>

\* get_android_dump(), lines 63-65: adb shell rm pending/*, and the return.
AdbRmPending ==
    /\ pc = "adb_rm_pending"
    /\ \/ pending_cleared' = TRUE /\ Goto("symbolize")
       \/ UNCHANGED pending_cleared /\ RaiseCaught("adb_rm_pending")
    /\ UNCHANGED tvars
    /\ UNCHANGED <<options, platform, failure, bins, crash_dir, android_crash_dir,
                   attempts, dumps, pulled, found_symbol, json_file, cleanup>>

\* run_test(), lines 115-122: dmp2minidump.py, on the platforms that need it.
DmpToMinidump ==
    /\ pc = "dmp_to_minidump"
    /\ failure' = Message("Failed to run dmp_to_minidump.")
    /\ \/ Goto("symbolize")
       \/ RaiseCaught("dmp_to_minidump")
    /\ UNCHANGED tvars
    /\ UNCHANGED <<options, platform, bins, crash_dir, android_crash_dir, attempts,
                   dumps, pulled, pending_cleared, found_symbol, json_file, cleanup>>

\* run_test(), lines 126-148: cdb.exe or minidump_stackwalk gives the stack.
Symbolize ==
    /\ pc = "symbolize"
    /\ failure' = IF platform = "win32" THEN Message("Failed to run cdb.exe.")
                  ELSE Message("Failed to run minidump_stackwalk.")
    /\ \/ found_symbol' \in BOOLEAN /\ Goto("check_stack")
       \/ UNCHANGED found_symbol /\ RaiseCaught("symbolize")
    /\ UNCHANGED tvars
    /\ UNCHANGED <<options, platform, bins, crash_dir, android_crash_dir, attempts,
                   dumps, pulled, pending_cleared, json_file, cleanup>>

\* run_test(), lines 150-163: the dump is removed and the stack is judged.
CheckStack ==
    /\ pc = "check_stack"
    /\ \/ RaiseCaught("remove_dump") /\ UNCHANGED failure
       \/ IF options.no_symbols /\ found_symbol
          THEN /\ failure' = Message("Found unexpected reference to CrashIntentionally in stack")
               /\ RaiseCaught("stack")
          ELSE IF ~options.no_symbols /\ ~found_symbol
          THEN /\ failure' = Message("Could not find reference to CrashIntentionally in stack.")
               /\ RaiseCaught("stack")
          ELSE UNCHANGED failure /\ Goto("else")
    /\ UNCHANGED tvars
    /\ UNCHANGED <<options, platform, bins, crash_dir, android_crash_dir, attempts,
                   dumps, pulled, pending_cleared, found_symbol, json_file, cleanup>>

\* As the except clause would be with the deletions after the try statement,
\* where its return leaves them out.
ExceptPastCleanup ==
    /\ pc = "except"
    /\ pc' = "done"
    /\ outcome' = Return(1)
    /\ json_file' = IF options.json THEN Written(<<failure>>) ELSE json_file
    /\ UNCHANGED tvars
    /\ UNCHANGED <<options, platform, failure, bins, crash_dir, android_crash_dir,
                   attempts, dumps, pulled, pending_cleared, found_symbol, pending,
                   raised, cleanup>>

\* main(), lines 243-249: the except clause: the failure is reported and
\* main() is to return 1; writing the report may raise.
Except ==
    /\ pc = "except"
    /\ pc' = "finally_rmtree"
    /\ IF options.json
       THEN \/ /\ json_file' = Written(<<failure>>)
               /\ pending' = Return(1)
               /\ UNCHANGED raised
            \/ /\ pending' = Raises
               /\ raised' = raised \cup {"json"}
               /\ UNCHANGED json_file
       ELSE /\ pending' = Return(1)
            /\ UNCHANGED <<json_file, raised>>
    /\ UNCHANGED tvars
    /\ UNCHANGED <<options, platform, failure, bins, crash_dir, android_crash_dir,
                   attempts, dumps, pulled, pending_cleared, found_symbol, outcome,
                   cleanup>>

\* main(), lines 251-256: the else clause: main() is to return 0.
Else ==
    /\ pc = "else"
    /\ pc' = "finally_rmtree"
    /\ IF options.json
       THEN \/ /\ json_file' = Written(<<>>)
               /\ pending' = Return(0)
               /\ UNCHANGED raised
            \/ /\ pending' = Raises
               /\ raised' = raised \cup {"json"}
               /\ UNCHANGED json_file
       ELSE /\ pending' = Return(0)
            /\ UNCHANGED <<json_file, raised>>
    /\ UNCHANGED tvars
    /\ UNCHANGED <<options, platform, failure, bins, crash_dir, android_crash_dir,
                   attempts, dumps, pulled, pending_cleared, found_symbol, outcome,
                   cleanup>>

\* main() leaves its finally clause: it returns or raises as was pending.
LeaveFinally ==
    /\ pc' = "done"
    /\ outcome' = pending
    /\ UNCHANGED <<pending, raised>>

\* main(), lines 258-265: crash_service is None; shutil.rmtree(crash_dir),
\* whose failure is printed and nothing more.
FinallyRmtree ==
    /\ pc = "finally_rmtree"
    /\ \/ /\ crash_dir' = "deleted"
          /\ cleanup' = cleanup \cup {<<"rmtree", "ok">>}
       \/ /\ UNCHANGED crash_dir
          /\ cleanup' = cleanup \cup {<<"rmtree", "failed">>}
    /\ IF platform = "android" THEN Goto("finally_android") ELSE LeaveFinally
    /\ UNCHANGED tvars
    /\ UNCHANGED <<options, platform, failure, bins, android_crash_dir, attempts,
                   dumps, pulled, pending_cleared, found_symbol, json_file>>

\* main(), lines 266-270: adb shell rm -rf ANDROID_CRASH_DIR, likewise.
FinallyAndroid ==
    /\ pc = "finally_android"
    /\ \/ /\ android_crash_dir' = "deleted"
          /\ cleanup' = cleanup \cup {<<"adb_rm", "ok">>}
       \/ /\ UNCHANGED android_crash_dir
          /\ cleanup' = cleanup \cup {<<"adb_rm", "failed">>}
    /\ LeaveFinally
    /\ UNCHANGED tvars
    /\ UNCHANGED <<options, platform, failure, bins, crash_dir, attempts, dumps,
                   pulled, pending_cleared, found_symbol, json_file>>

\* The command lines main() is started with.
MainInit ==
    /\ pc = "main"
    /\ options \in [build_dir : BOOLEAN, binary : BOOLEAN, additional_binary : BOOLEAN,
                    no_symbols : BOOLEAN, json : BOOLEAN]
    /\ platform = "unset"
    /\ failure = Message("unset")
    /\ bins = 0
    /\ crash_dir = "none"
    /\ android_crash_dir = "absent"
    /\ attempts = 0
    /\ dumps = 0
    /\ pulled = FALSE
    /\ pending_cleared = FALSE
    /\ found_symbol = FALSE
    /\ json_file = Unwritten
    /\ pending = Running
    /\ outcome = Running
    /\ raised = {}
    /\ cleanup = {}
    /\ config = <<>>
    /\ platforms = <<"windows">>
    /\ result = NotCalled

MainNext ==
    \/ ParseArgs
    \/ DetectPlatform
    \/ MkDtemp
    \/ GenerateSymbols
    \/ RunContentShell
    \/ RetrieveDump
    \/ ListPending
    \/ CheckDumps
    \/ AdbPull
    \/ AdbRmPending
    \/ DmpToMinidump
    \/ Symbolize
    \/ CheckStack
    \/ Except
    \/ Else
    \/ FinallyRmtree
    \/ FinallyAndroid

MainSpec == MainInit /\ [][MainNext]_vars

(***************************************************************************)
(* The transformation as a specification: the inputs are drawn, the        *)
(* function is applied.                                                    *)
(***************************************************************************)
Init ==
    /\ config \in Configs
    /\ platforms \in {<<p>> : p \in QueryPlatforms}
    /\ result = NotCalled
    /\ MainIdle

Call ==
    /\ result = NotCalled
    /\ result' = FieldTrialConfigToDescription(config, platforms[1])
    /\ UNCHANGED <<config, platforms, mvars>>

Next == Call

Spec == Init /\ [][Next]_vars

(***************************************************************************)
(* What the claims speak about.                                            *)
(***************************************************************************)
Queried == platforms[1]

Returned == result.status = "ok"

Failed == result = SchemaViolationError

Studies == result.elements.kFieldTrialConfig.studies

\* The trials a study is named after.
TrialsNamed(name) == {t \in DOMAIN config : config[t].name = name}

\* The PlatformConfigs of trial t that declare the queried platform.
Declaring(t) ==
    {c \in DOMAIN config[t].configs :
        \E i \in DOMAIN config[t].configs[c].platforms :
            config[t].configs[c].platforms[i] = Queried}

\* Where in trial t an experiment of that name is declared: <<c, e>>.
Origins(t, name) ==
    UNION {{<<c, e>> : e \in {i \in DOMAIN config[t].configs[c].experiments :
                                 config[t].configs[c].experiments[i].name = name}} :
           c \in DOMAIN config[t].configs}

\* Every output experiment with a place it comes from: <<study, k, t, c, e>>.
Outputs ==
    UNION {UNION {UNION {{<<s, k, t, ce[1], ce[2]>> :
                             ce \in Origins(t, Studies[s].experiments[k].name)} :
                         t \in TrialsNamed(Studies[s].name)} :
                  k \in DOMAIN Studies[s].experiments} :
           s \in DOMAIN Studies}

Out(x) == Studies[x[1]].experiments[x[2]]

InConfig(x) == config[x[3]].configs[x[4]]

InExperiment(x) == config[x[3]].configs[x[4]].experiments[x[5]]

Min(S) == CHOOSE m \in S : \A n \in S : m <= n

\* The number of experiments the declaring PlatformConfigs before c hold.
RECURSIVE Offset(_, _)
Offset(t, c) ==
    IF c <= 1 THEN 0
    ELSE Offset(t, c - 1)
         + (IF c - 1 \in Declaring(t) THEN Len(config[t].configs[c - 1].experiments)
            ELSE 0)

(***************************************************************************)
(* C1 as stated: the experiments of every study are those of the first     *)
(* PlatformConfig of its trial that declares the queried platform, and of  *)
(* no other.  The test of the ios query expects otherwise.                 *)
(***************************************************************************)
FirstMatchWins ==
    Returned =>
        \A s \in DOMAIN Studies : \A t \in TrialsNamed(Studies[s].name) :
            LET first == config[t].configs[Min(Declaring(t))]
            IN  /\ Len(Studies[s].experiments) = Len(first.experiments)
                /\ \A k \in DOMAIN Studies[s].experiments :
                      Studies[s].experiments[k].name = first.experiments[k].name

(***************************************************************************)
(* C1 amended: the experiments of every study are those of every           *)
(* PlatformConfig of its trial that declares the queried platform, the     *)
(* experiments of a later such PlatformConfig after those of the earlier   *)
(* ones, and those of no PlatformConfig that does not declare it.          *)
(***************************************************************************)
EveryMatchContributes ==
    Returned =>
        \A s \in DOMAIN Studies : \A t \in TrialsNamed(Studies[s].name) :
            /\ Len(Studies[s].experiments) = Offset(t, Len(config[t].configs) + 1)
            /\ \A c \in Declaring(t) : \A e \in DOMAIN config[t].configs[c].experiments :
                  /\ Offset(t, c) + e \in DOMAIN Studies[s].experiments
                  /\ Studies[s].experiments[Offset(t, c) + e].name
                        = config[t].configs[c].experiments[e].name

\* A study that holds the experiments of two PlatformConfigs of its trial.
TwoMatchesWitness ==
    /\ Returned
    /\ \E s \in DOMAIN Studies : \E t \in TrialsNamed(Studies[s].name) :
          /\ Cardinality(Declaring(t)) = 2
          /\ \A c \in Declaring(t) : \E x \in Outputs : x[1] = s /\ x[4] = c

(***************************************************************************)
(* C2: a study named after a trial is in the output exactly when some      *)
(* PlatformConfig of the trial declares the queried platform, and no study *)
(* has an empty list of experiments.                                       *)
(***************************************************************************)
OmissionIff ==
    Returned =>
        /\ \A t \in DOMAIN config :
              (\E s \in DOMAIN Studies : Studies[s].name = config[t].name)
                  <=> Declaring(t) # {}
        /\ \A s \in DOMAIN Studies :
              /\ Studies[s].experiments # <<>>
              /\ TrialsNamed(Studies[s].name) # {}

\* One trial is omitted and another has its study.
OmissionWitness ==
    /\ Returned
    /\ Len(Studies) = 1
    /\ \E t \in DOMAIN config : Declaring(t) = {}
    /\ \E t \in DOMAIN config : Declaring(t) # {}

LowEndDeviceFlag ==
    Returned =>
        \A x \in Outputs :
            /\ "is_low_end_device" \notin DOMAIN InConfig(x)
                  => Out(x).is_low_end_device = "Study::OPTIONAL_BOOL_MISSING"
            /\ ("is_low_end_device" \in DOMAIN InConfig(x)
                    /\ InConfig(x).is_low_end_device = TRUE)
                  => Out(x).is_low_end_device = "Study::OPTIONAL_BOOL_TRUE"
            /\ ("is_low_end_device" \in DOMAIN InConfig(x)
                    /\ InConfig(x).is_low_end_device = FALSE)
                  => Out(x).is_low_end_device = "Study::OPTIONAL_BOOL_FALSE"

\* One study with two experiments of a PlatformConfig that declares false
\* and one of a PlatformConfig that declares nothing.
LowEndDeviceWitness ==
    /\ Returned
    /\ \E x, y, z \in Outputs :
          /\ x[1] = y[1] /\ x[4] = y[4] /\ x[5] # y[5]
          /\ x[1] = z[1] /\ x[4] # z[4]
          /\ Out(x).is_low_end_device = "Study::OPTIONAL_BOOL_FALSE"
          /\ Out(y).is_low_end_device = "Study::OPTIONAL_BOOL_FALSE"
          /\ Out(z).is_low_end_device = "Study::OPTIONAL_BOOL_MISSING"

(***************************************************************************)
(* C5: form_factors of every output experiment is the empty list when its  *)
(* PlatformConfig declares no form factors, and otherwise the declared     *)
(* tags mapped one to one (desktop to DESKTOP, phone to PHONE, tablet to   *)
(* TABLET), as many and in the same order.                                 *)
(***************************************************************************)
FormFactorMapping ==
    Returned =>
        \A x \in Outputs :
            IF "form_factors" \notin DOMAIN InConfig(x)
            THEN Out(x).form_factors = <<>>
            ELSE /\ Len(Out(x).form_factors) = Len(InConfig(x).form_factors)
                 /\ \A i \in DOMAIN InConfig(x).form_factors :
                       LET tag == InConfig(x).form_factors[i]
                           sym == Out(x).form_factors[i]
                       IN  /\ tag = "desktop" => sym = "Study::DESKTOP"
                           /\ tag = "phone" => sym = "Study::PHONE"
                           /\ tag = "tablet" => sym = "Study::TABLET"
                           /\ tag \in {"desktop", "phone", "tablet"}

\* phone is declared before desktop, and so it is in the output.
FormFactorWitness ==
    /\ Returned
    /\ \E x \in Outputs :
          /\ "form_factors" \in DOMAIN InConfig(x)
          /\ InConfig(x).form_factors = <<"phone", "desktop">>
          /\ Out(x).form_factors = <<"Study::PHONE", "Study::DESKTOP">>

(***************************************************************************)
(* C6: platforms of every output experiment is the list of one symbol, the *)
(* one of the queried platform, whatever else its PlatformConfig declares. *)
(***************************************************************************)
PlatformEcho ==
    Returned =>
        \A s \in DOMAIN Studies : \A k \in DOMAIN Studies[s].experiments :
            LET sym == Studies[s].experiments[k].platforms
            IN  /\ Len(sym) = 1
                /\ Queried = "windows" => sym[1] = "Study::PLATFORM_WINDOWS"
                /\ Queried = "ios" => sym[1] = "Study::PLATFORM_IOS"
                /\ Queried = "mac" => sym[1] = "Study::PLATFORM_MAC"
                /\ Queried \in {"windows", "ios", "mac"}

\* The experiment comes from a PlatformConfig that declares two platforms.
PlatformEchoWitness ==
    /\ Returned
    /\ Queried = "mac"
    /\ \E x \in Outputs :
          /\ InConfig(x).platforms = <<"windows", "mac">>
          /\ Out(x).platforms = <<"Study::PLATFORM_MAC">>

UnknownTagsRejected ==
    (/\ result # NotCalled
     /\ \/ Queried \notin {"windows", "ios", "mac"}
        \/ \E t \in DOMAIN config : \E c \in DOMAIN config[t].configs :
              \/ \E i \in DOMAIN config[t].configs[c].platforms :
                    config[t].configs[c].platforms[i] \notin {"windows", "ios", "mac"}
              \/ /\ "form_factors" \in DOMAIN config[t].configs[c]
                 /\ \E i \in DOMAIN config[t].configs[c].form_factors :
                       config[t].configs[c].form_factors[i]
                           \notin {"desktop", "phone", "tablet"})
        => /\ Failed
           /\ "elements" \notin DOMAIN result

\* The unknown tag is in a PlatformConfig that does not declare the queried
\* platform, beside one that does, and nothing else is wrong.
UnknownTagWitness ==
    /\ Failed
    /\ Queried = "windows"
    /\ ~EmptyCollection(config)
    /\ \E t \in DOMAIN config :
          /\ Declaring(t) # {}
          /\ \E c \in DOMAIN config[t].configs :
                /\ c \notin Declaring(t)
                /\ "atari" \in Range(config[t].configs[c].platforms)

(***************************************************************************)
(* C9: a configuration with a trial of no PlatformConfig, or with a        *)
(* PlatformConfig of no experiment, fails with a schema violation for      *)
(* every queried platform: the trial is not omitted, and no study without  *)
(* experiments is returned.                                                *)
(***************************************************************************)
EmptyCollectionsRejected ==
    (/\ result # NotCalled
     /\ \E t \in DOMAIN config :
           \/ Len(config[t].configs) = 0
           \/ \E c \in DOMAIN config[t].configs :
                 Len(config[t].configs[c].experiments) = 0)
        => /\ Failed
           /\ "elements" \notin DOMAIN result

\* Every tag is known, a PlatformConfig that declares the queried platform
\* has no experiment, and another trial has no PlatformConfig.
EmptyCollectionWitness ==
    /\ Failed
    /\ ~UnknownTag(config, Queried)
    /\ \/ \E t \in DOMAIN config : \E c \in Declaring(t) :
              config[t].configs[c].experiments = <<>>
       \/ \E t \in DOMAIN config : config[t].configs = <<>>

(***************************************************************************)
(* What main() did once it has ended.                                      *)
(***************************************************************************)
Done == pc = "done"

Attempted(deletion) == \E how \in {"ok", "failed"} : <<deletion, how>> \in cleanup

\* Both deletions were attempted, the second on android only.
CleanupAttempted ==
    /\ Attempted("rmtree")
    /\ platform = "android" <=> Attempted("adb_rm")

(***************************************************************************)
(* C10 as stated: every run of main() that has created the temporary       *)
(* crash directory attempts to delete it, and on android the crash         *)
(* directory of the device, before it returns; it returns 0 exactly when   *)
(* no step raised and 1 otherwise.  When the JSON result cannot be         *)
(* written, main() does not return: it raises.                             *)
(***************************************************************************)
CleanupAndReturn ==
    (Done /\ crash_dir # "none") =>
        /\ CleanupAttempted
        /\ outcome.kind = "return"
        /\ outcome.value = 0 <=> raised = {}
        /\ outcome.value = 1 <=> raised # {}

(***************************************************************************)
(* C10 amended: every run of main() that has created the temporary crash   *)
(* directory attempts to delete it, and on android the crash directory of  *)
(* the device, before it ends, whether the symbols were generated and      *)
(* run_test completed or one of them raised; when writing the JSON result  *)
(* raises, main() raises after these attempts; otherwise it returns 0      *)
(* exactly when no step raised and 1 when one did; whether a deletion      *)
(* failed changes none of this.                                            *)
(***************************************************************************)
CleanupAndOutcome ==
    (Done /\ crash_dir # "none") =>
        /\ CleanupAttempted
        /\ IF "json" \in raised
           THEN outcome = Raises
           ELSE /\ outcome.kind = "return"
                /\ outcome.value = 0 <=> raised = {}
                /\ outcome.value = 1 <=> raised # {}

\* On android the dump count raised, the report was written, main() returned
\* 1, and the temporary directory could not be deleted.
CleanupWitness ==
    /\ Done
    /\ platform = "android"
    /\ raised = {"dump_count"}
    /\ json_file = Written(<<ExpectedOneDump(2)>>)
    /\ outcome = Return(1)
    /\ cleanup = {<<"rmtree", "failed">>, <<"adb_rm", "ok">>}
    /\ crash_dir = "exists"

\* get_android_dump has left its loop and judged the dumps.
PastCheckDumps ==
    /\ platform = "android"
    /\ attempts >= 1
    /\ "adb_ls" \notin raised
    /\ pc \notin {"list_pending", "check_dumps"}

(***************************************************************************)
(* C11: get_android_dump lists the pending directory at most 5 times and   *)
(* lists again only while no listing has returned a dump; it pulls a dump  *)
(* and clears the pending directory only when the last listing holds       *)
(* exactly one dump; with no dump after 5 listings, or with more than one  *)
(* dump, it raises and has neither pulled nor deleted anything.            *)
(***************************************************************************)
AndroidDumpRetrieval ==
    /\ attempts <= 5
    /\ pc = "list_pending" => (dumps = 0 /\ attempts < 5)
    /\ pc = "check_dumps" => (attempts >= 1 /\ (dumps >= 1 \/ attempts = 5))
    /\ pulled => dumps = 1
    /\ pending_cleared => (pulled /\ dumps = 1)
    /\ "dump_count" \in raised => (dumps # 1 /\ ~pulled /\ ~pending_cleared)
    /\ (PastCheckDumps /\ dumps # 1) =>
          /\ "dump_count" \in raised
          /\ dumps = 0 => attempts = 5
          /\ ~pulled
          /\ ~pending_cleared
          /\ failure = ExpectedOneDump(dumps)

\* Two listings were empty, the third held one dump: it was pulled and the
\* pending directory cleared.
AndroidDumpWitness ==
    /\ platform = "android"
    /\ attempts = 3
    /\ dumps = 1
    /\ pulled
    /\ pending_cleared
    /\ raised = {}

====
